---- MODULE Spec2Model ----
(***************************************************************************)
(* Medallion pipeline: the silver cleaning run (scripts/load_silver.py)   *)
(* and the pipeline driver (scripts/etl.py).                              *)
(*                                                                         *)
(* A cell of a table is a record [k, n, s]: k is the kind of the value    *)
(* ("null" for NULL/None/NaN/NaT, "num" for a number, "text" for a        *)
(* string, "date" for a date), n the number (or the day number of a       *)
(* date), s the string as a sequence of one-character strings.            *)
(***************************************************************************)
EXTENDS Integers, Sequences, FiniteSets, TLC

\* ---------------------------------------------------------------- bounds

\* Largest number of raw rows, summed over the five bronze tables.
MaxRows == 3

\* Largest number of build_silver_layer calls in one behaviour.
MaxRuns == 2

\* ---------------------------------------------------------------- values

Null == [k |-> "null", n |-> 0, s |-> <<>>]

Num(x) == [k |-> "num", n |-> x, s |-> <<>>]

Text(str) == [k |-> "text", n |-> 0, s |-> str]

Date(d) == [k |-> "date", n |-> d, s |-> <<>>]

isna(v) == v.k = "null"

\* ------------------------------------------------ python string methods

LowerLetters ==
  <<"a","b","c","d","e","f","g","h","i","j","k","l","m",
    "n","o","p","q","r","s","t","u","v","w","x","y","z">>

UpperLetters ==
  <<"A","B","C","D","E","F","G","H","I","J","K","L","M",
    "N","O","P","Q","R","S","T","U","V","W","X","Y","Z">>

DigitChars == <<"0","1","2","3","4","5","6","7","8","9">>

Range(f) == {f[i] : i \in DOMAIN f}

IsLowerCh(c) == c \in Range(LowerLetters)

IsUpperCh(c) == c \in Range(UpperLetters)

IsCasedCh(c) == IsLowerCh(c) \/ IsUpperCh(c)

IsSpaceCh(c) == c = " "

ToUpperCh(c) ==
  IF IsLowerCh(c)
  THEN UpperLetters[CHOOSE i \in DOMAIN LowerLetters : LowerLetters[i] = c]
  ELSE c

ToLowerCh(c) ==
  IF IsUpperCh(c)
  THEN LowerLetters[CHOOSE i \in DOMAIN UpperLetters : UpperLetters[i] = c]
  ELSE c

\* str.strip(): the string without its leading and trailing whitespace.
strip(str) ==
  LET solid == {i \in DOMAIN str : ~IsSpaceCh(str[i])}
  IN  IF solid = {} THEN <<>>
      ELSE LET lo == CHOOSE i \in solid : \A j \in solid : i <= j
               hi == CHOOSE i \in solid : \A j \in solid : j <= i
           IN  SubSeq(str, lo, hi)

\* str.lower()
lower(str) == [i \in DOMAIN str |-> ToLowerCh(str[i])]

\* str.title(): a cased character is upper-cased when it follows an uncased
\* one (or starts the string) and lower-cased when it follows a cased one.
title(str) ==
  [i \in DOMAIN str |->
     IF i > 1 /\ IsCasedCh(str[i-1]) THEN ToLowerCh(str[i]) ELSE ToUpperCh(str[i])]

\* str.istitle(): at least one cased character, upper-case characters only
\* after uncased ones and lower-case characters only after cased ones.
istitle(str) ==
  /\ \E i \in DOMAIN str : IsCasedCh(str[i])
  /\ \A i \in DOMAIN str :
       LET prevCased == i > 1 /\ IsCasedCh(str[i-1])
       IN  /\ IsUpperCh(str[i]) => ~prevCased
           /\ IsLowerCh(str[i]) => prevCased

\* str.islower(): at least one cased character and no upper-case one.
islower(str) ==
  /\ \E i \in DOMAIN str : IsCasedCh(str[i])
  /\ \A i \in DOMAIN str : ~IsUpperCh(str[i])

\* The value of a string of decimal digits.
RECURSIVE ParseDigits(_)
ParseDigits(str) ==
  IF str = <<>> THEN 0
  ELSE 10 * ParseDigits(SubSeq(str, 1, Len(str) - 1))
       + (CHOOSE d \in 0..9 : DigitChars[d + 1] = str[Len(str)])

\* str(n) for a natural number n.
RECURSIVE DigitsOf(_)
DigitsOf(x) ==
  IF x < 10 THEN <<DigitChars[x + 1]>>
  ELSE Append(DigitsOf(x \div 10), DigitChars[(x % 10) + 1])

\* ------------------------------------------------- pandas column methods

\* pd.to_numeric(col, errors="coerce") on one cell: numbers stay, strings of
\* digits (surrounding whitespace allowed) are parsed, the rest becomes NaN.
to_numeric(v) ==
  CASE v.k = "num" -> v
    [] v.k = "text" ->
         LET body == strip(v.s)
         IN  IF body # <<>> /\ \A i \in DOMAIN body : body[i] \in Range(DigitChars)
             THEN Num(ParseDigits(body))
             ELSE Null
    [] OTHER -> Null

\* pd.to_datetime(col, errors="coerce") on one cell: dates stay, anything
\* that is not a date becomes NaT.
to_datetime(v) == IF v.k = "date" THEN v ELSE Null

\* Series.str.strip() on one cell (NaN for a cell that is not a string).
str_strip(v) == IF v.k = "text" THEN Text(strip(v.s)) ELSE Null

\* Series.str.title() on one cell.
str_title(v) == IF v.k = "text" THEN Text(title(v.s)) ELSE Null

\* Series.str.lower() on one cell.
str_lower(v) == IF v.k = "text" THEN Text(lower(v.s)) ELSE Null

\* Series.astype(str) on one cell.
astype_str(v) ==
  CASE v.k = "text" -> v
    [] v.k = "num" -> Text(DigitsOf(v.n))
    [] OTHER -> Text(<<"N","o","n","e">>)

\* Elementwise != of two cells: NaN differs from everything, itself included.
ne(a, b) == isna(a) \/ isna(b) \/ a # b

\* between with inclusive="neither": the bounds themselves are outside.
between_Exclusive(v, lo, hi) == v.k = "num" /\ lo < v.n /\ v.n < hi

\* Series.between(lo, hi): inclusive on both sides, False for NaN.
between(v, lo, hi) == v.k = "num" /\ lo <= v.n /\ v.n <= hi

\* ------------------------------------------------------------ data frames

\* A data frame is a sequence of entries [idx, row]: idx is the index label
\* of the row (its position in the result of the SELECT, from 0) and row the
\* record of its cells.

TableNames == <<"students", "courses", "enrollment", "assessment", "payments">>

Tables == Range(TableNames)

PrimaryKey ==
  [students |-> "student_id", courses |-> "course_id",
   enrollment |-> "enrollment_id", assessment |-> "assessment_id",
   payments |-> "payment_id"]

numeric_cols ==
  [students |-> {"student_id"},
   courses |-> {"course_id", "price"},
   enrollment |-> {"enrollment_id", "student_id", "course_id"},
   assessment |-> {"assessment_id", "student_id", "course_id", "score"},
   payments |-> {"payment_id", "student_id", "course_id", "amount"}]

date_cols ==
  [students |-> {"signup_date"},
   courses |-> {},
   enrollment |-> {"enroll_date"},
   assessment |-> {"attempt_date"},
   payments |-> {"payment_date"}]

valid_status ==
  {<<"a","c","t","i","v","e">>,
   <<"c","o","m","p","l","e","t","e","d">>,
   <<"d","r","o","p","p","e","d">>}

valid_methods ==
  {<<"C","r","e","d","i","t"," ","C","a","r","d">>,
   <<"D","e","b","i","t"," ","C","a","r","d">>,
   <<"U","p","i">>,
   <<"N","e","t","b","a","n","k","i","n","g">>,
   <<"P","a","y","p","a","l">>,
   <<"C","a","s","h">>,
   <<"B","a","n","k"," ","T","r","a","n","s","f","e","r">>}

\* pd.read_sql: the rows of a bronze table, labelled 0, 1, 2, ...
read_sql(rows) == [i \in DOMAIN rows |-> [idx |-> i - 1, row |-> rows[i]]]

\* The entries of a frame at the positions in S, in frame order.
RECURSIVE AtPositions(_, _)
AtPositions(frame, S) ==
  IF frame = <<>> THEN <<>>
  ELSE LET n == Len(frame)
           front == AtPositions(SubSeq(frame, 1, n - 1), S)
       IN  IF n \in S THEN Append(front, frame[n]) ELSE front

\* df[mask]: the entries at the positions where the boolean mask is True.  A
\* mask is the set of those positions.
Masked(frame, mask) == AtPositions(frame, mask)

\* df.drop(rej.index): the frame without the entries labelled as in rej.
drop(frame, rej) ==
  AtPositions(frame, {i \in DOMAIN frame : frame[i].idx \notin {rej[j].idx : j \in DOMAIN rej}})

\* df[col] = series: the column col replaced, position by position, by the
\* cells of series.
assign(frame, col, series) ==
  [i \in DOMAIN frame |->
     [idx |-> frame[i].idx,
      row |-> [c \in DOMAIN frame[i].row |->
                 IF c = col THEN series[i] ELSE frame[i].row[c]]]]

\* df[col] = pd.to_numeric(df[col], errors="coerce") for the numeric columns
\* of table t.
NumericConversions(frame, t) ==
  [i \in DOMAIN frame |->
     [idx |-> frame[i].idx,
      row |-> [c \in DOMAIN frame[i].row |->
                 IF c \in numeric_cols[t] THEN to_numeric(frame[i].row[c])
                 ELSE frame[i].row[c]]]]

\* df[col] = pd.to_datetime(df[col], errors="coerce") for the date columns of
\* table t.
DateConversions(frame, t) ==
  [i \in DOMAIN frame |->
     [idx |-> frame[i].idx,
      row |-> [c \in DOMAIN frame[i].row |->
                 IF c \in date_cols[t] THEN to_datetime(frame[i].row[c])
                 ELSE frame[i].row[c]]]]

\* drop_duplicates with keep="last": the last entry of every key value stays.
drop_duplicates_KeepLast(frame, key) ==
  AtPositions(frame,
    {i \in DOMAIN frame :
       \A j \in (i + 1)..Len(frame) : frame[j].row[key] # frame[i].row[key]})

\* df.drop_duplicates(subset=[key]): the first entry of every key value stays;
\* NaN keys count as equal to each other.
drop_duplicates(frame, key) ==
  AtPositions(frame,
    {i \in DOMAIN frame : \A j \in 1..(i - 1) : frame[j].row[key] # frame[i].row[key]})

\* Series.to_json() of one row: NaN and NaT are null, a date is its epoch
\* time in milliseconds, numbers and strings are themselves.
to_json(row) ==
  [c \in DOMAIN row |-> IF row[c].k = "date" THEN Num(row[c].n * 86400000) ELSE row[c]]

\* log_and_store_rejections: one audit.rejected_rows record per row of
\* df_rejected, in frame order.  idx is not a column of the audit table: it
\* records which row of the frame the record was written for.
log_and_store_rejections(table_name, reason, df_rejected) ==
  [i \in DOMAIN df_rejected |->
     [table_name |-> table_name,
      rejected_data |-> to_json(df_rejected[i].row),
      reason |-> reason,
      idx |-> df_rejected[i].idx]]

\* DropRule with the drop forgotten: the rejected rows are logged and stay.
DropRule_KeepsRows(st, table_name, reason, mask) ==
  [df |-> st.df,
   log |-> st.log \o log_and_store_rejections(table_name, reason, Masked(st.df, mask))]

\* The state of one table's cleaning: the frame and the audit records
\* written so far.  A drop rule logs the rows of the mask and drops them.
DropRule(st, table_name, reason, mask) ==
  LET rej == Masked(st.df, mask)
  IN  [df |-> drop(st.df, rej),
       log |-> st.log \o log_and_store_rejections(table_name, reason, rej)]

\* LogRule with the assignment of the normalised column forgotten.
LogRule_NoNormalise(st, table_name, reason, mask, col, series) ==
  [df |-> st.df,
   log |-> st.log \o log_and_store_rejections(table_name, reason, Masked(st.df, mask))]

\* LogRule written like a drop rule: the flagged rows leave the frame.
LogRule_Drops(st, table_name, reason, mask, col, series) ==
  LET rej == Masked(st.df, mask)
  IN  [df |-> drop(assign(st.df, col, series), rej),
       log |-> st.log \o log_and_store_rejections(table_name, reason, rej)]

\* A log-but-keep rule logs the rows of the mask and then assigns the
\* normalised column to every row of the frame.
LogRule(st, table_name, reason, mask, col, series) ==
  LET rej == Masked(st.df, mask)
  IN  [df |-> assign(st.df, col, series),
       log |-> st.log \o log_and_store_rejections(table_name, reason, rej)]

\* Series.str.istitle() / Series.str.islower() on one cell.  The inputs of
\* this model hold no NULL name or category (on such a cell the mask is not
\* boolean).
str_istitle(v) == v.k = "text" /\ istitle(v.s)

str_islower(v) == v.k = "text" /\ islower(v.s)

\* Series.isin(values) on one text cell.
isin(v, values) == v.k = "text" /\ v.s \in values

\* ---------------------------------------------------- the rule chains

Fresh(frame) == [df |-> frame, log |-> <<>>]

\* Students checks.
StudentsChecks(frame) ==
  LET s0 == Fresh(frame)
      s1 == DropRule(s0, "students", "Non-numeric student_id",
                     {i \in DOMAIN s0.df : isna(s0.df[i].row.student_id)})
      s2 == DropRule(s1, "students", "Missing city",
                     {i \in DOMAIN s1.df :
                        \/ isna(s1.df[i].row.city)
                        \/ str_strip(s1.df[i].row.city) = Text(<<>>)})
      s3 == LogRule(s2, "students", "Whitespace in email",
                    {i \in DOMAIN s2.df :
                       ne(str_strip(s2.df[i].row.email), s2.df[i].row.email)},
                    "email", [i \in DOMAIN s2.df |-> str_strip(s2.df[i].row.email)])
  IN  LogRule(s3, "students", "Invalid casing in name",
              {i \in DOMAIN s3.df : ~str_istitle(s3.df[i].row.name)},
              "name", [i \in DOMAIN s3.df |-> str_title(s3.df[i].row.name)])

\* Courses checks.
CoursesChecks(frame) ==
  LET s0 == Fresh(frame)
      s1 == DropRule(s0, "courses", "Non-numeric course_id",
                     {i \in DOMAIN s0.df : isna(s0.df[i].row.course_id)})
      s2 == DropRule(s1, "courses", "Non-numeric price",
                     {i \in DOMAIN s1.df : isna(s1.df[i].row.price)})
      s3 == LogRule(s2, "courses", "Invalid casing in category",
                    {i \in DOMAIN s2.df : ~str_islower(s2.df[i].row.category)},
                    "category", [i \in DOMAIN s2.df |-> str_lower(s2.df[i].row.category)])
  IN  DropRule(s3, "courses", "Price out of range [50,500]",
               {i \in DOMAIN s3.df : ~between(s3.df[i].row.price, 50, 500)})

\* Enrollment checks.
EnrollmentChecks(frame) ==
  LET s0 == Fresh(frame)
      s1 == DropRule(s0, "enrollment", "Non-numeric enrollment_id",
                     {i \in DOMAIN s0.df : isna(s0.df[i].row.enrollment_id)})
      s2 == DropRule(s1, "enrollment", "Non-numeric student_id/course_id",
                     {i \in DOMAIN s1.df :
                        isna(s1.df[i].row.student_id) \/ isna(s1.df[i].row.course_id)})
  IN  DropRule(s2, "enrollment", "Invalid status enum",
               {i \in DOMAIN s2.df : ~isin(s2.df[i].row.status, valid_status)})

\* Assessment checks.
AssessmentChecks(frame) ==
  LET s0 == Fresh(frame)
      s1 == DropRule(s0, "assessment", "Non-numeric assessment_id",
                     {i \in DOMAIN s0.df : isna(s0.df[i].row.assessment_id)})
      s2 == DropRule(s1, "assessment", "Non-numeric student_id/course_id",
                     {i \in DOMAIN s1.df :
                        isna(s1.df[i].row.student_id) \/ isna(s1.df[i].row.course_id)})
      s3 == DropRule(s2, "assessment", "Non-numeric score",
                     {i \in DOMAIN s2.df : isna(s2.df[i].row.score)})
  IN  DropRule(s3, "assessment", "Score out of range [0,100]",
               {i \in DOMAIN s3.df : ~between(s3.df[i].row.score, 0, 100)})

\* df["method"].astype(str).str.strip().str.title() on one cell.
normalize_method(v) == str_title(str_strip(astype_str(v)))

\* Payments checks.
PaymentsChecks(frame) ==
  LET s0 == Fresh(frame)
      s1 == DropRule(s0, "payments", "Non-numeric payment_id",
                     {i \in DOMAIN s0.df : isna(s0.df[i].row.payment_id)})
      s2 == DropRule(s1, "payments", "Non-numeric student_id/course_id",
                     {i \in DOMAIN s1.df :
                        isna(s1.df[i].row.student_id) \/ isna(s1.df[i].row.course_id)})
      s3 == DropRule(s2, "payments", "Non-numeric amount",
                     {i \in DOMAIN s2.df : isna(s2.df[i].row.amount)})
      s4 == DropRule(s3, "payments", "Amount out of range [50,500]",
                     {i \in DOMAIN s3.df : ~between(s3.df[i].row.amount, 50, 500)})
      s5 == [df |-> assign(s4.df, "method",
                           [i \in DOMAIN s4.df |-> normalize_method(s4.df[i].row.method)]),
             log |-> s4.log]
  IN  DropRule(s5, "payments", "Invalid method enum",
               {i \in DOMAIN s5.df : ~isin(s5.df[i].row.method, valid_methods)})

\* set(df[col]): the values of a column.
ColumnSet(frame, col) == {frame[i].row[col] : i \in DOMAIN frame}

\* InvalidFk with "and" for "or": only rows with both keys unknown are masked.
InvalidFk_And(r, valid_student_ids, valid_course_ids) ==
  (r.student_id \notin valid_student_ids) /\ (r.course_id \notin valid_course_ids)

\* The mask of the foreign key check on one row.
InvalidFk(r, valid_student_ids, valid_course_ids) ==
  (r.student_id \notin valid_student_ids) \/ (r.course_id \notin valid_course_ids)

\* Foreign key checks on one child table, against the students and courses
\* frames as they are when the check runs.
ForeignKeyCheck(frame, table_name, df_students, df_courses) ==
  LET valid_student_ids == ColumnSet(df_students, "student_id")
      valid_course_ids == ColumnSet(df_courses, "course_id")
  IN  DropRule(Fresh(frame), table_name, "Invalid FK student_id/course_id",
               {i \in DOMAIN frame :
                  InvalidFk(frame[i].row, valid_student_ids, valid_course_ids)})

\* The rows of a frame, as DataFrame.to_sql(index=False) inserts them.
RowsOf(frame) == [i \in DOMAIN frame |-> frame[i].row]

\* LoadOrder with the child tables written first.
LoadOrder_ChildrenFirst ==
  <<"enrollment", "assessment", "payments", "students", "courses">>

\* The order of the to_sql calls that load the silver tables.
LoadOrder ==
  <<"students", "courses", "enrollment", "assessment", "payments">>

\* The tables of the open transaction after the first k to_sql calls.
to_sql(tables, frames, k) ==
  [t \in Tables |->
     IF \E j \in 1..k : LoadOrder[j] = t
     THEN tables[t] \o RowsOf(frames[t])
     ELSE tables[t]]

\* The five tables, all empty.
EmptyTables == [t \in Tables |-> <<>>]

\* TruncateTables with the TRUNCATE forgotten.
TruncateTables_Keep(tables) == tables

\* TRUNCATE TABLE silver.<table> CASCADE for each of the five tables.
TruncateTables(tables) == [t \in Tables |-> <<>>]

\* The index labels of a frame.
Labels(frame) == {frame[i].idx : i \in DOMAIN frame}

\* One bronze table as read, with its numeric and date columns converted and
\* its duplicates dropped.
Prepare(rows, t) ==
  drop_duplicates(
    DateConversions(NumericConversions(read_sql(rows), t), t),
    PrimaryKey[t])

\* build_silver_layer as a function of the bronze tables: the rows it loads
\* into the silver tables and the audit records it inserts, in order.
BuildSilver(tables) ==
  LET d == [t \in Tables |-> Prepare(tables[t], t)]
      s == StudentsChecks(d.students)
      c == CoursesChecks(d.courses)
      e == EnrollmentChecks(d.enrollment)
      a == AssessmentChecks(d.assessment)
      p == PaymentsChecks(d.payments)
      fe == ForeignKeyCheck(e.df, "enrollment", s.df, c.df)
      fa == ForeignKeyCheck(a.df, "assessment", s.df, c.df)
      fp == ForeignKeyCheck(p.df, "payments", s.df, c.df)
  IN  [silver |-> [students |-> RowsOf(s.df), courses |-> RowsOf(c.df),
                   enrollment |-> RowsOf(fe.df), assessment |-> RowsOf(fa.df),
                   payments |-> RowsOf(fp.df)],
       added |-> s.log \o c.log \o e.log \o a.log \o p.log
                 \o fe.log \o fa.log \o fp.log]

\* ------------------------------------------------------------- raw inputs

JohnSmith == <<"J","o","h","n"," ","S","m","i","t","h">>

john_smith == <<"j","o","h","n"," ","s","m","i","t","h">>

Pune == <<"P","u","n","e">>

Student(id, name, email, city) ==
  [student_id |-> id, name |-> Text(name), email |-> Text(email),
   city |-> Text(city), signup_date |-> Date(1)]

Course(id, category, price) ==
  [course_id |-> id, course_name |-> Text(<<"S","Q","L">>), category |-> Text(category),
   price |-> price, instructor |-> Text(<<"A","n","n">>)]

Enrollment(id, sid, cid, status) ==
  [enrollment_id |-> id, student_id |-> sid, course_id |-> cid,
   enroll_date |-> Date(2), status |-> Text(status)]

Assessment(id, sid, cid, score) ==
  [assessment_id |-> id, student_id |-> sid, course_id |-> cid,
   score |-> score, attempt_date |-> Date(3)]

Payment(id, sid, cid, amount, method) ==
  [payment_id |-> id, student_id |-> sid, course_id |-> cid,
   amount |-> amount, payment_date |-> Text(<<"s","o","o","n">>), method |-> Text(method)]

\* The raw rows the bronze tables are filled from.
Pool ==
  [students |->
     { Student(Num(7), JohnSmith, <<"j","@","x">>, Pune),
       Student(Num(7), john_smith, <<" ","j","@","x"," ">>, Pune),
       Student(Text(<<"7">>), john_smith, <<" ","j","@","x"," ">>, <<" ">>),
       Student(Text(<<"x">>), JohnSmith, <<"j","@","x">>, Pune),
       Student(Null, JohnSmith, <<"j","@","x">>, Pune) },
   courses |->
     { Course(Num(3), <<"t","e","c","h">>, Num(50)),
       Course(Num(3), <<"T","e","c","h">>, Num(501)),
       Course(Num(3), <<"t","e","c","h">>, Text(<<"f","r","e","e">>)) },
   enrollment |->
     { Enrollment(Num(1), Num(7), Num(3), <<"a","c","t","i","v","e">>),
       Enrollment(Num(2), Num(7), Num(3), <<"p","a","u","s","e","d">>) },
   assessment |->
     { Assessment(Num(1), Num(7), Num(3), Num(100)),
       Assessment(Num(2), Num(7), Num(3), Null) },
   payments |->
     { Payment(Num(1), Num(7), Num(3), Num(500), <<" ","u","p","i"," ">>),
       Payment(Num(2), Num(7), Num(3), Num(600), <<"g","o","l","d">>),
       Payment(Num(2), Num(7), Num(3), Num(50), <<"g","o","l","d">>) }]

\* How many rows each bronze table holds: at most MaxRows in all.
Shapes ==
  {n \in [Tables -> 0..MaxRows] :
     n.students + n.courses + n.enrollment + n.assessment + n.payments <= MaxRows}

\* ------------------------------------------------------------------ state

VARIABLES
  bronze,    \* the bronze tables: table name -> sequence of raw rows
  silver,    \* the committed silver tables: table name -> sequence of rows
  audit,     \* the committed audit.rejected_rows, in insertion order
  pc,        \* where the silver stage is
  df,        \* build_silver_layer's data frames: table name -> frame
  txSilver,  \* the silver tables as its open transaction sees them
  txAudit,   \* the audit records its open transaction has inserted
  runs,      \* the finished build_silver_layer calls, oldest first: whether
             \* the call returned (ok), the bronze tables it read (input),
             \* the committed silver tables before and after it, the audit
             \* records it committed (added) and the index labels of the
             \* rows it loaded into silver (kept)
  etl,       \* where run_etl is ("off" when it is not what runs)
  loadAt,    \* load_all_bronze's position in FILES (1..5, 6 past the end)
  gold,      \* the gold tables of the local and of the Supabase store
  trace      \* the steps run_etl has performed, oldest first; a step that
             \* failed is followed by "failed"

vars == <<bronze, silver, audit, pc, df, txSilver, txAudit, runs, etl, loadAt, gold, trace>>

store == <<bronze, silver, audit>>

driver == <<loadAt, gold, trace>>

NoGold == [local |-> "old", supabase |-> "old"]

\* The silver stage before its first statement, on given bronze tables.
SilverInit ==
  /\ silver = EmptyTables
  /\ audit = <<>>
  /\ pc = "idle"
  /\ df = EmptyTables
  /\ txSilver = EmptyTables
  /\ txAudit = <<>>
  /\ runs = <<>>
  /\ gold = NoGold
  /\ trace = <<>>

\* load_silver.py run as a script, MaxRuns times at most, on bronze tables
\* that hold any rows of the pool.
Init ==
  /\ \E n \in Shapes :
       bronze \in [students : [1..n.students -> Pool.students],
                   courses : [1..n.courses -> Pool.courses],
                   enrollment : [1..n.enrollment -> Pool.enrollment],
                   assessment : [1..n.assessment -> Pool.assessment],
                   payments : [1..n.payments -> Pool.payments]]
  /\ SilverInit
  /\ etl = "off"
  /\ loadAt = 0

\* ------------------------------------------------------------ silver stage

\* create_silver_schemas_and_tables: CREATE ... IF NOT EXISTS of the silver
\* and audit schemas and tables; the rows they hold stay.
CreateSilverSchemas ==
  /\ pc = "idle"
  /\ etl \in {"off", "silver_ddl"}
  /\ Len(runs) < MaxRuns
  /\ pc' = "ready"
  /\ etl' = IF etl = "off" THEN "off" ELSE "silver_build"
  /\ trace' = IF etl = "off" THEN trace ELSE Append(trace, "silver_ddl")
  /\ UNCHANGED <<store, df, txSilver, txAudit, runs, loadAt, gold>>

\* Truncate on an autocommit connection: the TRUNCATE is committed at once.
Truncate_Autocommit ==
  /\ pc = "ready"
  /\ silver' = TruncateTables(silver)
  /\ txSilver' = TruncateTables(silver)
  /\ txAudit' = <<>>
  /\ pc' = "truncated"
  /\ trace' = IF etl = "off" THEN trace ELSE Append(trace, "silver_build")
  /\ UNCHANGED <<bronze, audit, df, runs, etl, loadAt, gold>>

\* engine.begin() and the TRUNCATE of the five silver tables, inside the
\* transaction.
Truncate ==
  /\ pc = "ready"
  /\ txSilver' = TruncateTables(silver)
  /\ txAudit' = <<>>
  /\ pc' = "truncated"
  /\ trace' = IF etl = "off" THEN trace ELSE Append(trace, "silver_build")
  /\ UNCHANGED <<store, df, runs, etl, loadAt, gold>>

\* Read from bronze, numeric conversions, date conversions, de-duplication.
ReadBronze ==
  /\ pc = "truncated"
  /\ df' = [t \in Tables |-> Prepare(bronze[t], t)]
  /\ pc' = "students"
  /\ UNCHANGED <<store, txSilver, txAudit, runs, etl, driver>>

\* Students checks.
Students ==
  LET r == StudentsChecks(df.students)
  IN  /\ pc = "students"
      /\ df' = [df EXCEPT !.students = r.df]
      /\ txAudit' = txAudit \o r.log
      /\ pc' = "courses"
      /\ UNCHANGED <<store, txSilver, runs, etl, driver>>

\* Courses checks.
Courses ==
  LET r == CoursesChecks(df.courses)
  IN  /\ pc = "courses"
      /\ df' = [df EXCEPT !.courses = r.df]
      /\ txAudit' = txAudit \o r.log
      /\ pc' = "enrollment"
      /\ UNCHANGED <<store, txSilver, runs, etl, driver>>

\* Enrollment checks.
EnrollmentRules ==
  LET r == EnrollmentChecks(df.enrollment)
  IN  /\ pc = "enrollment"
      /\ df' = [df EXCEPT !.enrollment = r.df]
      /\ txAudit' = txAudit \o r.log
      /\ pc' = "assessment"
      /\ UNCHANGED <<store, txSilver, runs, etl, driver>>

\* Assessment checks.
AssessmentRules ==
  LET r == AssessmentChecks(df.assessment)
  IN  /\ pc = "assessment"
      /\ df' = [df EXCEPT !.assessment = r.df]
      /\ txAudit' = txAudit \o r.log
      /\ pc' = "payments"
      /\ UNCHANGED <<store, txSilver, runs, etl, driver>>

\* Payments checks.
Payments ==
  LET r == PaymentsChecks(df.payments)
  IN  /\ pc = "payments"
      /\ df' = [df EXCEPT !.payments = r.df]
      /\ txAudit' = txAudit \o r.log
      /\ pc' = "fk"
      /\ UNCHANGED <<store, txSilver, runs, etl, driver>>

\* Foreign key checks of enrollment, assessment and payments, in this order.
ForeignKeys ==
  LET e == ForeignKeyCheck(df.enrollment, "enrollment", df.students, df.courses)
      a == ForeignKeyCheck(df.assessment, "assessment", df.students, df.courses)
      p == ForeignKeyCheck(df.payments, "payments", df.students, df.courses)
  IN  /\ pc = "fk"
      /\ df' = [df EXCEPT !.enrollment = e.df, !.assessment = a.df, !.payments = p.df]
      /\ txAudit' = txAudit \o e.log \o a.log \o p.log
      /\ pc' = "load"
      /\ UNCHANGED <<store, txSilver, runs, etl, driver>>

\* Load cleaned data into silver: to_sql(if_exists="append") of the five
\* frames, one after the other.
LoadSilver ==
  /\ pc = "load"
  /\ txSilver' = to_sql(txSilver, df, Len(LoadOrder))
  /\ pc' = "loaded"
  /\ UNCHANGED <<store, df, txAudit, runs, etl, driver>>

\* InsertAudit as a rewrite of the audit table: the records of the call
\* replace the records the table held.
InsertAudit_Overwrite(table, records) == records

\* INSERT INTO audit.rejected_rows of the records of one transaction: they
\* are added after the records the table holds.
InsertAudit(table, records) == table \o records

\* The with-block ends: the transaction commits and build_silver_layer returns.
Commit ==
  /\ pc = "loaded"
  /\ silver' = txSilver
  /\ audit' = InsertAudit(audit, txAudit)
  /\ runs' = Append(runs, [ok |-> TRUE, input |-> bronze, before |-> silver,
                           silver |-> txSilver, added |-> txAudit,
                           kept |-> [t \in Tables |-> Labels(df[t])]])
  /\ pc' = "idle"
  /\ df' = EmptyTables
  /\ txSilver' = EmptyTables
  /\ txAudit' = <<>>
  /\ etl' = IF etl = "off" THEN "off" ELSE "supabase"
  /\ UNCHANGED <<bronze, driver>>

\* SilverRaised with the exception caught and only logged, as
\* load_csv_to_table does: run_etl goes on.
SilverRaised_Swallowed(at) == IF at = "off" THEN "off" ELSE "supabase"

\* What the caller of build_silver_layer does with the exception it raises:
\* run_etl has no handler, so the exception leaves run_etl.
SilverRaised(at) == IF at = "off" THEN "off" ELSE "raised"

\* A statement of the with-block raises: the transaction rolls back and the
\* exception is logged and raised again.
Fail ==
  /\ pc \notin {"idle", "ready"}
  /\ runs' = Append(runs, [ok |-> FALSE, input |-> bronze, before |-> silver,
                           silver |-> silver, added |-> <<>>,
                           kept |-> [t \in Tables |-> {}]])
  /\ pc' = "idle"
  /\ df' = EmptyTables
  /\ txSilver' = EmptyTables
  /\ txAudit' = <<>>
  /\ etl' = SilverRaised(etl)
  /\ trace' = IF etl = "off" THEN trace ELSE Append(trace, "failed")
  /\ UNCHANGED <<store, loadAt, gold>>

SilverNext ==
  \/ CreateSilverSchemas
  \/ Truncate
  \/ ReadBronze
  \/ Students
  \/ Courses
  \/ EnrollmentRules
  \/ AssessmentRules
  \/ Payments
  \/ ForeignKeys
  \/ LoadSilver
  \/ Commit
  \/ Fail

Next == SilverNext

Spec == Init /\ [][Next]_vars

\* The prices, scores and amounts at and next to the bounds of the range
\* rules.
BoundaryPrices == {Num(49), Num(50), Num(500), Num(501), Text(<<"5","0","0">>)}

BoundaryScores == {Num(-1), Num(0), Num(100), Num(101)}

BoundaryAmounts == {Num(49), Num(50), Num(500), Num(501)}

\* load_silver.py run as a script on bronze tables that hold one student, one
\* course, one assessment and one payment, the price, the score and the
\* amount drawn from the values at the bounds.
InitRange ==
  /\ \E p \in BoundaryPrices : \E sc \in BoundaryScores : \E am \in BoundaryAmounts :
       bronze =
         [students |-> <<Student(Num(7), JohnSmith, <<"j","@","x">>, Pune)>>,
          courses |-> <<Course(Num(3), <<"t","e","c","h">>, p)>>,
          enrollment |-> <<>>,
          assessment |-> <<Assessment(Num(1), Num(7), Num(3), sc)>>,
          payments |-> <<Payment(Num(1), Num(7), Num(3), am, <<" ","u","p","i"," ">>)>>]
  /\ SilverInit
  /\ etl = "off"
  /\ loadAt = 0

SpecRange == InitRange /\ [][Next]_vars

\* ---------------------------------------------------------------- run_etl

\* bronze_inputs/<table>.csv: one row for each table.
CsvFiles ==
  [students |-> <<Student(Num(7), JohnSmith, <<"j","@","x">>, Pune)>>,
   courses |-> <<Course(Num(3), <<"t","e","c","h">>, Num(50))>>,
   enrollment |-> <<Enrollment(Num(1), Num(7), Num(3), <<"a","c","t","i","v","e">>)>>,
   assessment |-> <<Assessment(Num(1), Num(7), Num(3), Num(100))>>,
   payments |-> <<Payment(Num(1), Num(7), Num(3), Num(500), <<" ","u","p","i"," ">>)>>]

\* Bronze tables that an earlier load left behind.
StaleBronze ==
  [students |-> <<Student(Num(8), JohnSmith, <<"j","@","x">>, Pune)>>,
   courses |-> <<Course(Num(4), <<"t","e","c","h">>, Num(50))>>,
   enrollment |-> <<Enrollment(Num(9), Num(8), Num(4), <<"a","c","t","i","v","e">>)>>,
   assessment |-> <<Assessment(Num(9), Num(8), Num(4), Num(100))>>,
   payments |-> <<Payment(Num(9), Num(8), Num(4), Num(500), <<"C","a","s","h">>)>>]

\* The bronze tables whose DDL declares a FOREIGN KEY to table t.
Referencing(t) ==
  CASE t = "students" -> {"enrollment", "assessment", "payments"}
    [] t = "courses" -> {"enrollment", "assessment"}
    [] OTHER -> {}

\* The file as load_csv_to_table copies it: the columns with "date" in their
\* name converted with errors='coerce'.
FixedCsv(t) ==
  [i \in DOMAIN CsvFiles[t] |->
     [c \in DOMAIN CsvFiles[t][i] |->
        IF c \in date_cols[t] THEN to_datetime(CsvFiles[t][i][c]) ELSE CsvFiles[t][i][c]]]

\* load_csv_to_table, committed: TRUNCATE TABLE bronze.<t> CASCADE, COPY.
load_csv_to_table(tables, t) ==
  [u \in Tables |->
     IF u = t THEN FixedCsv(t)
     ELSE IF u \in Referencing(t) THEN <<>>
     ELSE tables[u]]

\* run_etl is called, the pipeline's modules imported.
InitEtl ==
  /\ bronze \in {EmptyTables, StaleBronze}
  /\ SilverInit
  /\ etl = "bronze_ddl"
  /\ loadAt = 0

\* create_schema_and_tables of load_bronze.
CreateBronzeSchema ==
  /\ etl = "bronze_ddl"
  /\ etl' = "bronze_load"
  /\ loadAt' = 1
  /\ trace' = Append(trace, "bronze_ddl")
  /\ UNCHANGED <<store, pc, df, txSilver, txAudit, runs, gold>>

\* create_schema_and_tables catches an exception, prints it and calls exit().
CreateBronzeSchemaFails ==
  /\ etl = "bronze_ddl"
  /\ etl' = "exited"
  /\ trace' = trace \o <<"bronze_ddl", "failed">>
  /\ UNCHANGED <<store, pc, df, txSilver, txAudit, runs, loadAt, gold>>

\* One turn of load_all_bronze's loop: the file exists and is loaded.
LoadCsv ==
  /\ etl = "bronze_load"
  /\ loadAt \in DOMAIN TableNames
  /\ bronze' = load_csv_to_table(bronze, TableNames[loadAt])
  /\ loadAt' = loadAt + 1
  /\ trace' = Append(trace, "bronze_load")
  /\ UNCHANGED <<silver, audit, pc, df, txSilver, txAudit, runs, etl, gold>>

\* One turn of the loop: load_csv_to_table catches an exception and prints
\* it; nothing was committed.
LoadCsvFails ==
  /\ etl = "bronze_load"
  /\ loadAt \in DOMAIN TableNames
  /\ loadAt' = loadAt + 1
  /\ trace' = trace \o <<"bronze_load", "failed">>
  /\ UNCHANGED <<store, pc, df, txSilver, txAudit, runs, etl, gold>>

\* One turn of the loop: the file does not exist, a warning is logged.
FileNotFound ==
  /\ etl = "bronze_load"
  /\ loadAt \in DOMAIN TableNames
  /\ loadAt' = loadAt + 1
  /\ trace' = Append(trace, "bronze_skip")
  /\ UNCHANGED <<store, pc, df, txSilver, txAudit, runs, etl, gold>>

\* The loop is over: run_etl goes on to the silver layer.
BronzeReady ==
  /\ etl = "bronze_load"
  /\ loadAt = Len(TableNames) + 1
  /\ etl' = "silver_ddl"
  /\ UNCHANGED <<store, pc, df, txSilver, txAudit, runs, loadAt, gold, trace>>

\* create_silver_schemas_and_tables logs an exception and raises it again.
CreateSilverSchemasFails ==
  /\ etl = "silver_ddl"
  /\ pc = "idle"
  /\ etl' = "raised"
  /\ trace' = trace \o <<"silver_ddl", "failed">>
  /\ UNCHANGED <<store, pc, df, txSilver, txAudit, runs, loadAt, gold>>

\* test_supabase_connection
TestSupabase ==
  /\ etl = "supabase"
  /\ etl' = "gold_schema"
  /\ trace' = Append(trace, "supabase")
  /\ UNCHANGED <<store, pc, df, txSilver, txAudit, runs, loadAt, gold>>

TestSupabaseFails ==
  /\ etl = "supabase"
  /\ etl' = "raised"
  /\ trace' = trace \o <<"supabase", "failed">>
  /\ UNCHANGED <<store, pc, df, txSilver, txAudit, runs, loadAt, gold>>

\* create_gold_schema_and_tables
CreateGoldSchema ==
  /\ etl = "gold_schema"
  /\ etl' = "gold_drop_local"
  /\ trace' = Append(trace, "gold_schema")
  /\ UNCHANGED <<store, pc, df, txSilver, txAudit, runs, loadAt, gold>>

CreateGoldSchemaFails ==
  /\ etl = "gold_schema"
  /\ etl' = "raised"
  /\ trace' = trace \o <<"gold_schema", "failed">>
  /\ UNCHANGED <<store, pc, df, txSilver, txAudit, runs, loadAt, gold>>

\* build_gold_layer: DROP TABLE IF EXISTS of every gold table, local store.
GoldDropLocal ==
  /\ etl = "gold_drop_local"
  /\ gold' = [gold EXCEPT !.local = "dropped"]
  /\ etl' = "gold_drop_supabase"
  /\ trace' = Append(trace, "gold_drop_local")
  /\ UNCHANGED <<store, pc, df, txSilver, txAudit, runs, loadAt>>

\* build_gold_layer: DROP TABLE IF EXISTS of every gold table, Supabase.
GoldDropSupabase ==
  /\ etl = "gold_drop_supabase"
  /\ gold' = [gold EXCEPT !.supabase = "dropped"]
  /\ etl' = "gold_tables"
  /\ trace' = Append(trace, "gold_drop_supabase")
  /\ UNCHANGED <<store, pc, df, txSilver, txAudit, runs, loadAt>>

\* build_gold_layer: every query read from silver and written to both stores.
GoldTables ==
  /\ etl = "gold_tables"
  /\ gold' = [local |-> "built", supabase |-> "built"]
  /\ etl' = "done"
  /\ trace' = Append(trace, "gold_tables")
  /\ UNCHANGED <<store, pc, df, txSilver, txAudit, runs, loadAt>>

\* build_gold_layer logs an exception and raises it again; the DROPs and the
\* tables written before it stay.
BuildGoldFails ==
  /\ etl \in {"gold_drop_local", "gold_drop_supabase", "gold_tables"}
  /\ gold' \in IF etl = "gold_tables"
               THEN {gold, [local |-> "built", supabase |-> "dropped"]}
               ELSE {gold}
  /\ etl' = "raised"
  /\ trace' = trace \o <<etl, "failed">>
  /\ UNCHANGED <<store, pc, df, txSilver, txAudit, runs, loadAt>>

NextEtl ==
  \/ CreateBronzeSchema
  \/ CreateBronzeSchemaFails
  \/ LoadCsv
  \/ LoadCsvFails
  \/ FileNotFound
  \/ BronzeReady
  \/ CreateSilverSchemasFails
  \/ SilverNext
  \/ TestSupabase
  \/ TestSupabaseFails
  \/ CreateGoldSchema
  \/ CreateGoldSchemaFails
  \/ GoldDropLocal
  \/ GoldDropSupabase
  \/ GoldTables
  \/ BuildGoldFails

SpecEtl == InitEtl /\ [][NextEtl]_vars

\* ------------------------------------------------ vocabulary of the claims

\* The build_silver_layer calls that returned.  runs changes only with the
\* step that ends a call, so the calls are examined in the states where no
\* call is under way.
OkRuns == IF pc = "idle" THEN {n \in DOMAIN runs : runs[n].ok} ELSE {}

ChildTables == {"enrollment", "assessment", "payments"}

FkReason == "Invalid FK student_id/course_id"

\* The reasons of the log-but-keep rules; every other reason is a drop reason.
LogReasons ==
  {"Whitespace in email", "Invalid casing in name", "Invalid casing in category"}

\* A raw row with its numeric and date columns coerced.
Coerced(t, r) ==
  [c \in DOMAIN r |->
     IF c \in numeric_cols[t] THEN to_numeric(r[c])
     ELSE IF c \in date_cols[t] THEN to_datetime(r[c])
     ELSE r[c]]

\* Row i of a raw table is the first row with its primary key.
FirstOfKey(t, rows, i) ==
  \A j \in 1..(i - 1) :
    to_numeric(rows[j][PrimaryKey[t]]) # to_numeric(rows[i][PrimaryKey[t]])

Blank(v) == v.k # "text" \/ strip(v.s) = <<>>

\* The drop rules of a table in their fixed order, evaluated on a raw row:
\* <<reason, the row violates the rule>>.
DropRules(t, r) ==
  LET c == Coerced(t, r)
  IN  CASE t = "students" ->
             << <<"Non-numeric student_id", c.student_id.k # "num">>,
                <<"Missing city", Blank(r.city)>> >>
        [] t = "courses" ->
             << <<"Non-numeric course_id", c.course_id.k # "num">>,
                <<"Non-numeric price", c.price.k # "num">>,
                <<"Price out of range [50,500]", c.price.n < 50 \/ c.price.n > 500>> >>
        [] t = "enrollment" ->
             << <<"Non-numeric enrollment_id", c.enrollment_id.k # "num">>,
                <<"Non-numeric student_id/course_id",
                  c.student_id.k # "num" \/ c.course_id.k # "num">>,
                <<"Invalid status enum",
                  r.status.k # "text" \/ r.status.s \notin valid_status>> >>
        [] t = "assessment" ->
             << <<"Non-numeric assessment_id", c.assessment_id.k # "num">>,
                <<"Non-numeric student_id/course_id",
                  c.student_id.k # "num" \/ c.course_id.k # "num">>,
                <<"Non-numeric score", c.score.k # "num">>,
                <<"Score out of range [0,100]", c.score.n < 0 \/ c.score.n > 100>> >>
        [] t = "payments" ->
             << <<"Non-numeric payment_id", c.payment_id.k # "num">>,
                <<"Non-numeric student_id/course_id",
                  c.student_id.k # "num" \/ c.course_id.k # "num">>,
                <<"Non-numeric amount", c.amount.k # "num">>,
                <<"Amount out of range [50,500]", c.amount.n < 50 \/ c.amount.n > 500>>,
                <<"Invalid method enum",
                  r.method.k # "text" \/ title(strip(r.method.s)) \notin valid_methods>> >>

\* The reason of the first drop rule a raw row violates, "none" if it
\* violates no drop rule of its table.
FirstViolated(t, r) ==
  LET rules == DropRules(t, r)
      hits == {k \in DOMAIN rules : rules[k][2]}
  IN  IF hits = {} THEN "none"
      ELSE rules[CHOOSE k \in hits : \A h \in hits : k <= h][1]

\* The audit records a run wrote for row i of raw table t.
RecordsFor(R, t, i) ==
  {k \in DOMAIN R.added : R.added[k].table_name = t /\ R.added[k].idx = i - 1}

RecordsWith(R, t, i, reason) ==
  {k \in RecordsFor(R, t, i) : R.added[k].reason = reason}

\* The normalized form of a raw row.
Normalized(t, r) ==
  LET c == Coerced(t, r)
  IN  CASE t = "students" ->
             [c EXCEPT !.email = Text(strip(r.email.s)), !.name = Text(title(r.name.s))]
        [] t = "courses" -> [c EXCEPT !.category = Text(lower(r.category.s))]
        [] t = "payments" -> [c EXCEPT !.method = Text(title(strip(r.method.s)))]
        [] OTHER -> c

\* The raw row is already in the form the log-but-keep rules ask for.
AlreadyNormal(t, r) ==
  CASE t = "students" -> strip(r.email.s) = r.email.s /\ istitle(r.name.s)
    [] t = "courses" -> islower(r.category.s)
    [] OTHER -> TRUE

\* The student and the course a child row names are in the silver tables.
ParentsKept(R, t, r) ==
  t \in ChildTables =>
    /\ \E k \in DOMAIN R.silver.students :
         R.silver.students[k].student_id = to_numeric(r.student_id)
    /\ \E k \in DOMAIN R.silver.courses :
         R.silver.courses[k].course_id = to_numeric(r.course_id)

\* Row i of raw table t went through the rule chain of t (it is no later
\* duplicate) and a drop rule of t dropped it.
DroppedByOwnRules(R, t, i) ==
  /\ FirstOfKey(t, R.input[t], i)
  /\ FirstViolated(t, R.input[t][i]) # "none"

\* Row i of raw table t went through the rule chain of t and passed it.
PassesOwnRules(R, t, i) ==
  /\ FirstOfKey(t, R.input[t], i)
  /\ FirstViolated(t, R.input[t][i]) = "none"

\* ------------------------------------------------------------------ claims

\* Row i of a raw table repeats the primary key of an earlier row: the same
\* raw value, or the same number.
RepeatsKey(t, rows, i) ==
  \E j \in 1..(i - 1) :
    \/ rows[j][PrimaryKey[t]] = rows[i][PrimaryKey[t]]
    \/ /\ to_numeric(rows[i][PrimaryKey[t]]).k = "num"
       /\ to_numeric(rows[j][PrimaryKey[t]]) = to_numeric(rows[i][PrimaryKey[t]])

\* C1: after a build_silver_layer call that returned, every raw row that
\* violates a drop rule of its table (and does not repeat the primary key of
\* an earlier row, which de-duplication removes) is absent from its silver
\* table, no silver child row names its key unless a kept row of its table
\* carries that key, and the call wrote exactly one audit record for the row
\* with the reason of the first rule it violates; so also when several rows
\* of a table have a missing or non-numeric primary key.
C1_EveryViolatingRowAudited ==
  \A n \in OkRuns : \A t \in Tables : \A i \in DOMAIN runs[n].input[t] :
    LET R == runs[n]
        r == R.input[t][i]
        key == to_numeric(r[PrimaryKey[t]])
        reason == FirstViolated(t, r)
    IN  (reason # "none" /\ ~RepeatsKey(t, R.input[t], i)) =>
          /\ (i - 1) \notin R.kept[t]
          /\ Cardinality(RecordsWith(R, t, i, reason)) = 1
          /\ (/\ t \in {"students", "courses"}
              /\ \A k \in DOMAIN R.silver[t] : R.silver[t][k][PrimaryKey[t]] # key)
             => \A ct \in ChildTables : \A k \in DOMAIN R.silver[ct] :
                  R.silver[ct][k][PrimaryKey[t]] # key

\* C2: when a student (or course) row is dropped by the rules of its own
\* table, every enrollment, assessment and payment row that names its key and
\* passes the rules of its own table is not loaded into silver and has
\* exactly one audit record with the foreign key reason, and no other drop
\* record.
C2_FkCascade ==
  \A n \in OkRuns : \A pt \in {"students", "courses"} :
    \A i \in DOMAIN runs[n].input[pt] :
      LET R == runs[n]
          key == to_numeric(R.input[pt][i][PrimaryKey[pt]])
      IN  DroppedByOwnRules(R, pt, i) =>
            \A ct \in ChildTables : \A j \in DOMAIN R.input[ct] :
              (/\ PassesOwnRules(R, ct, j)
               /\ to_numeric(R.input[ct][j][PrimaryKey[pt]]) = key)
              => /\ (j - 1) \notin R.kept[ct]
                 /\ Cardinality(RecordsWith(R, ct, j, FkReason)) = 1
                 /\ RecordsFor(R, ct, j) = RecordsWith(R, ct, j, FkReason)

\* C2, its case: a student was dropped for its city, the course is kept, and
\* a child row that passes its own rules names that student.
C2_Witness ==
  \E n \in OkRuns : \E i \in DOMAIN runs[n].input.students :
    \E ct \in ChildTables : \E j \in DOMAIN runs[n].input[ct] :
      /\ DroppedByOwnRules(runs[n], "students", i)
      /\ FirstViolated("students", runs[n].input.students[i]) = "Missing city"
      /\ PassesOwnRules(runs[n], ct, j)
      /\ to_numeric(runs[n].input[ct][j].student_id)
           = to_numeric(runs[n].input.students[i].student_id)
      /\ runs[n].silver.courses # <<>>
      /\ RecordsWith(runs[n], ct, j, FkReason) # {}

\* C3: the committed silver tables and audit log change only when the
\* transaction commits, both at once, the silver tables to the five loaded
\* frames; a call that raises leaves them as they were before the call.
C3_Atomic ==
  [][/\ (silver' # silver \/ audit' # audit) =>
          /\ pc = "loaded"
          /\ silver' = [t \in Tables |-> RowsOf(df[t])]
          /\ audit' = audit \o txAudit
     /\ (Len(runs') > Len(runs) /\ ~runs'[Len(runs')].ok) =>
          /\ silver' = silver
          /\ audit' = audit
          /\ silver' = runs'[Len(runs')].before]_vars

\* C3, its case: a call raised after its TRUNCATE while the silver tables
\* held rows, and they still hold them.
C3_Witness ==
  \E n \in DOMAIN runs :
    /\ ~runs[n].ok
    /\ n = Len(runs)
    /\ pc = "idle"
    /\ runs[n].before.students # <<>>
    /\ silver = runs[n].before

\* C4: of two calls that returned on the same bronze tables, the later leaves
\* the silver tables with the same rows as the earlier, no row twice, and
\* adds as many audit records as the earlier did.
C4_Idempotent ==
  \A m \in OkRuns : \A n \in OkRuns :
    (m < n /\ runs[m].input = runs[n].input) =>
      /\ \A t \in Tables :
           /\ Range(runs[n].silver[t]) = Range(runs[m].silver[t])
           /\ Cardinality(Range(runs[n].silver[t])) = Len(runs[n].silver[t])
      /\ Len(runs[n].added) = Len(runs[m].added)
      /\ (n = Len(runs) /\ pc = "idle") => silver = runs[n].silver
      /\ (Len(runs) = 2 /\ m = 1 /\ n = 2) => Len(audit) = 2 * Len(runs[m].added)

\* C4, its case: two calls returned on bronze tables that give silver rows
\* and audit records.
C4_Witness ==
  /\ Len(runs) = 2
  /\ runs[1].ok
  /\ runs[2].ok
  /\ runs[2].silver.students # <<>>
  /\ runs[2].silver.payments # <<>>
  /\ runs[2].added # <<>>

\* C5: every audit record holds in rejected_data the raw values of the row it
\* was written for, and no rule writes two records for one row.
C5_AuditVerbatim ==
  \A n \in OkRuns : \A k \in DOMAIN runs[n].added :
    LET R == runs[n]
        a == R.added[k]
    IN  /\ a.rejected_data = to_json(R.input[a.table_name][a.idx + 1])
        /\ \A h \in DOMAIN R.added :
             (/\ R.added[h].table_name = a.table_name
              /\ R.added[h].idx = a.idx
              /\ R.added[h].reason = a.reason) => h = k

\* The bronze tables with the rows of every table in any other order.
Reorderings(tables) ==
  {[t \in Tables |-> [i \in DOMAIN tables[t] |-> tables[t][f[t][i]]]] :
     f \in [students : Permutations(DOMAIN tables.students),
            courses : Permutations(DOMAIN tables.courses),
            enrollment : Permutations(DOMAIN tables.enrollment),
            assessment : Permutations(DOMAIN tables.assessment),
            payments : Permutations(DOMAIN tables.payments)]}

\* An audit record as the table holds it: table name, row, reason.
Entry(a) ==
  [table_name |-> a.table_name, rejected_data |-> a.rejected_data, reason |-> a.reason]

\* Two logs hold the same entries, each as often.
SameEntries(log1, log2) ==
  \A x \in {Entry(log1[k]) : k \in DOMAIN log1} \cup {Entry(log2[k]) : k \in DOMAIN log2} :
    Cardinality({k \in DOMAIN log1 : Entry(log1[k]) = x})
      = Cardinality({k \in DOMAIN log2 : Entry(log2[k]) = x})

\* C6: build_silver_layer on the same rows in any other order loads the same
\* set of rows into every silver table and writes the same audit entries.
C6_OrderIndependent ==
  \A n \in OkRuns : \A other \in Reorderings(runs[n].input) :
    LET out == BuildSilver(other)
    IN  /\ \A t \in Tables : Range(out.silver[t]) = Range(runs[n].silver[t])
        /\ SameEntries(out.added, runs[n].added)

\* C7: a call writes at most one drop record for a raw row, with the reason
\* of the first drop rule the row violates (the foreign key reason if it
\* violates none), and a row with a drop record is not loaded; a payments row
\* with numeric ids and an amount outside [50,500] has the amount record and
\* no other, whatever its method.
C7_FirstDropRuleOnly ==
  \A n \in OkRuns : \A t \in Tables : \A i \in DOMAIN runs[n].input[t] :
    LET R == runs[n]
        r == R.input[t][i]
        first == FirstViolated(t, r)
        drops == {k \in RecordsFor(R, t, i) : R.added[k].reason \notin LogReasons}
    IN  /\ Cardinality(drops) <= 1
        /\ \A k \in drops :
             /\ R.added[k].reason = IF first = "none" THEN FkReason ELSE first
             /\ (i - 1) \notin R.kept[t]
        /\ (/\ t = "payments"
            /\ FirstOfKey(t, R.input[t], i)
            /\ first = "Amount out of range [50,500]")
           => /\ Cardinality(RecordsFor(R, t, i)) = 1
              /\ \A k \in RecordsFor(R, t, i) :
                   R.added[k].reason = "Amount out of range [50,500]"

\* C7, its case: a payments row with an amount out of range and a method
\* outside the enum was audited.
C7_Witness ==
  \E n \in OkRuns : \E i \in DOMAIN runs[n].input.payments :
    LET r == runs[n].input.payments[i]
    IN  /\ FirstViolated("payments", r) = "Amount out of range [50,500]"
        /\ title(strip(r.method.s)) \notin valid_methods
        /\ RecordsFor(runs[n], "payments", i) # {}

\* The reasons of the log-but-keep rules a raw row is flagged by.
LogReasonsFor(t, r) ==
  CASE t = "students" ->
         {x \in {"Whitespace in email"} : strip(r.email.s) # r.email.s}
           \cup {x \in {"Invalid casing in name"} : ~istitle(r.name.s)}
    [] t = "courses" -> {x \in {"Invalid casing in category"} : ~islower(r.category.s)}
    [] OTHER -> {}

C9_LogButKeep ==
  \A n \in OkRuns : \A i \in DOMAIN runs[n].input.students :
    LET R == runs[n]
        r == R.input.students[i]
        emails == RecordsWith(R, "students", i, "Whitespace in email")
        names == RecordsWith(R, "students", i, "Invalid casing in name")
    IN  PassesOwnRules(R, "students", i) =>
          /\ (i - 1) \in R.kept.students
          /\ \E k \in DOMAIN R.silver.students :
               /\ R.silver.students[k].student_id = to_numeric(r.student_id)
               /\ R.silver.students[k].email = Text(strip(r.email.s))
               /\ R.silver.students[k].name = Text(title(r.name.s))
               /\ R.silver.students[k].city = r.city
          /\ Cardinality(emails) = IF strip(r.email.s) # r.email.s THEN 1 ELSE 0
          /\ Cardinality(names) = IF istitle(r.name.s) THEN 0 ELSE 1
          /\ RecordsFor(R, "students", i) = emails \cup names

\* C9, its case: a student row with whitespace around its email and a
\* lower-case name was loaded and has both records.
C9_Witness ==
  \E n \in OkRuns : \E i \in DOMAIN runs[n].input.students :
    LET R == runs[n]
        r == R.input.students[i]
    IN  /\ PassesOwnRules(R, "students", i)
        /\ strip(r.email.s) # r.email.s
        /\ ~istitle(r.name.s)
        /\ (i - 1) \in R.kept.students
        /\ Cardinality(RecordsFor(R, "students", i)) = 2

\* The steps of run_etl that come after the silver layer.
GoldSteps ==
  {"supabase", "gold_schema", "gold_drop_local", "gold_drop_supabase", "gold_tables"}

\* C10: when build_silver_layer raises, run_etl ends with the exception and
\* has performed neither the Supabase check nor a gold step, and the gold
\* tables are untouched; run_etl performs such a step only once the silver
\* transaction has committed.
C10_NoGoldAfterSilverFailure ==
  /\ (\E n \in DOMAIN runs : ~runs[n].ok) =>
       /\ etl = "raised"
       /\ \A k \in DOMAIN trace : trace[k] \notin GoldSteps
       /\ gold = NoGold
  /\ (\/ \E k \in DOMAIN trace : trace[k] \in GoldSteps
      \/ etl \in GoldSteps \cup {"done"}
      \/ gold # NoGold) =>
       /\ Len(runs) = 1
       /\ runs[1].ok
       /\ pc = "idle"
       /\ silver = runs[1].silver

\* C10, its case: build_silver_layer raised inside run_etl.
C10_Witness ==
  /\ etl = "raised"
  /\ Len(runs) = 1
  /\ ~runs[1].ok
  /\ \E k \in DOMAIN trace : trace[k] = "silver_build"

\* The exit status of "python etl.py" once run_etl has ended: an exception
\* that leaves run_etl ends the interpreter with status 1; exit() without an
\* argument, as create_schema_and_tables of load_bronze calls it, ends it
\* with status 0, as does the return of run_etl.
ExitStatus ==
  CASE etl = "raised" -> 1
    [] etl = "exited" -> 0
    [] etl = "done" -> 0
    [] OTHER -> -1

\* C11: a step of run_etl that failed is the last step run_etl performed, and
\* the run has ended with a status other than 0.
C11_FailureAborts ==
  \A k \in DOMAIN trace :
    trace[k] = "failed" =>
      /\ k = Len(trace)
      /\ etl \in {"raised", "exited"}
      /\ ExitStatus # 0

\* No two rows of a table hold the same value in the table's primary key.
UniqueKeys(t, rows) ==
  \A a \in DOMAIN rows : \A b \in DOMAIN rows :
    a # b => rows[a][PrimaryKey[t]] # rows[b][PrimaryKey[t]]

\* C12: when the first rule of build_silver_layer is about to run, every
\* frame holds one row per primary key, the first of the input with that key,
\* and no audit record has been written; a row that repeats the key of an
\* earlier row gets no audit record and is not loaded; no silver table, as
\* committed or as the open transaction sees it, holds a primary key twice.
C12_DuplicatesRemovedSilently ==
  /\ pc = "students" =>
       /\ txAudit = <<>>
       /\ \A t \in Tables :
            /\ UniqueKeys(t, RowsOf(df[t]))
            /\ Labels(df[t]) =
                 {i - 1 : i \in {j \in DOMAIN bronze[t] : FirstOfKey(t, bronze[t], j)}}
  /\ \A n \in OkRuns : \A t \in Tables : \A i \in DOMAIN runs[n].input[t] :
       RepeatsKey(t, runs[n].input[t], i) =>
         /\ RecordsFor(runs[n], t, i) = {}
         /\ (i - 1) \notin runs[n].kept[t]
  /\ \A t \in Tables : UniqueKeys(t, silver[t]) /\ UniqueKeys(t, txSilver[t])

\* C12, its case: a call returned on a table where a row repeats the numeric
\* key of an earlier row, and the earlier row was loaded into silver.
C12_Witness ==
  \E n \in OkRuns : \E t \in Tables : \E i \in DOMAIN runs[n].input[t] :
    \E j \in 1..(i - 1) :
      /\ to_numeric(runs[n].input[t][i][PrimaryKey[t]]).k = "num"
      /\ to_numeric(runs[n].input[t][j][PrimaryKey[t]])
           = to_numeric(runs[n].input[t][i][PrimaryKey[t]])
      /\ runs[n].input[t][j] # runs[n].input[t][i]
      /\ (j - 1) \in runs[n].kept[t]

\* Every row of the child tables names a student of the students table and a
\* course of the courses table.
ReferencesHold(tables) ==
  \A t \in ChildTables : \A k \in DOMAIN tables[t] :
    /\ \E p \in DOMAIN tables.students :
         tables.students[p].student_id = tables[t][k].student_id
    /\ \E p \in DOMAIN tables.courses :
         tables.courses[p].course_id = tables[t][k].course_id

\* C13: the committed silver tables and the silver tables of the open
\* transaction hold no child row without its student and its course, also
\* after each single to_sql call of the load; the foreign key pass runs on
\* frames that all the per-table rules have been applied to.
C13_ReferentialIntegrity ==
  /\ ReferencesHold(silver)
  /\ ReferencesHold(txSilver)
  /\ pc = "load" =>
       \A k \in 0..Len(LoadOrder) : ReferencesHold(to_sql(txSilver, df, k))
  /\ pc = "load" =>
       \A t \in Tables : \A i \in DOMAIN df[t] :
         /\ FirstViolated(t, bronze[t][df[t][i].idx + 1]) = "none"
         /\ df[t][i].row = Normalized(t, bronze[t][df[t][i].idx + 1])

\* C13, its case: a call returned that loaded a child row, its student and
\* its course, and they are the committed silver tables.
C13_Witness ==
  \E n \in OkRuns : \E t \in ChildTables :
    /\ runs[n].silver[t] # <<>>
    /\ runs[n].silver.students # <<>>
    /\ runs[n].silver.courses # <<>>
    /\ silver = runs[n].silver

\* C14: no step removes or changes a committed audit record; a call that
\* returns adds its records after them and leaves in the silver tables the
\* rows it made from the bronze tables and no other; a call that raises
\* leaves the audit records as they were.
C14_AuditAppendOnly ==
  [][/\ Len(audit) <= Len(audit')
     /\ SubSeq(audit', 1, Len(audit)) = audit
     /\ Len(runs') > Len(runs) =>
          IF runs'[Len(runs')].ok
          THEN /\ audit' = audit \o runs'[Len(runs')].added
               /\ silver' = BuildSilver(bronze).silver
          ELSE audit' = audit]_vars

\* C14, its case: a second call returned on silver tables and audit records
\* that the first call had filled.
C14_Witness ==
  /\ pc = "idle"
  /\ Len(runs) = 2
  /\ runs[1].ok
  /\ runs[2].ok
  /\ runs[1].added # <<>>
  /\ runs[2].before.courses # <<>>
  /\ Len(audit) = Len(runs[1].added) + Len(runs[2].added)

\* The range rules: table -> <<column, lower bound, upper bound, reason>>.
RangeRules ==
  [courses |-> <<"price", 50, 500, "Price out of range [50,500]">>,
   assessment |-> <<"score", 0, 100, "Score out of range [0,100]">>,
   payments |-> <<"amount", 50, 500, "Amount out of range [50,500]">>]

\* C15: a course, assessment or payment whose ids and ranged value are
\* numeric is dropped with the range reason of its table, and for no other
\* drop reason, when the value is below the lower or above the upper bound;
\* when the value is a bound or between the bounds it gets no record with the
\* range reason and, other rules permitting, is loaded into silver.
C15_InclusiveBounds ==
  \A n \in OkRuns : \A t \in DOMAIN RangeRules : \A i \in DOMAIN runs[n].input[t] :
    LET R == runs[n]
        r == R.input[t][i]
        c == Coerced(t, r)
        col == RangeRules[t][1]
        lo == RangeRules[t][2]
        hi == RangeRules[t][3]
        reason == RangeRules[t][4]
        numeric == \A x \in numeric_cols[t] : c[x].k = "num"
    IN  (FirstOfKey(t, R.input[t], i) /\ numeric) =>
          IF c[col].n < lo \/ c[col].n > hi
          THEN /\ (i - 1) \notin R.kept[t]
               /\ Cardinality(RecordsWith(R, t, i, reason)) = 1
               /\ \A k \in RecordsFor(R, t, i) :
                    R.added[k].reason \in {reason} \cup LogReasons
          ELSE /\ RecordsWith(R, t, i, reason) = {}
               /\ (FirstViolated(t, r) = "none" /\ ParentsKept(R, t, r))
                    => (i - 1) \in R.kept[t]

\* C15, its case: a call returned that kept a course priced at a bound and
\* dropped a payment whose amount is next to a bound.
C15_Witness ==
  \E n \in OkRuns :
    /\ to_numeric(runs[n].input.courses[1].price) \in {Num(50), Num(500)}
    /\ 0 \in runs[n].kept.courses
    /\ runs[n].input.payments[1].amount \in {Num(49), Num(501)}
    /\ 0 \notin runs[n].kept.payments
    /\ runs[n].input.assessment[1].score \in {Num(0), Num(100)}
    /\ 0 \in runs[n].kept.assessment

\* ------------------------------------------------------ etl.py as a script

\* The names each module of the pipeline defines at its top level.
Exports ==
  [load_bronze |-> {"DB_CONFIG", "SCHEMA", "TABLES", "get_checksum",
                    "create_schema_and_tables", "load_csv_to_table"},
   load_silver |-> {"DB_CONFIG", "BRONZE_SCHEMA", "SILVER_SCHEMA", "SILVER_TABLES",
                    "create_silver_schemas_and_tables", "build_silver_layer"},
   load_gold |-> {"DB_CONFIG", "LOCAL_DB_CONFIG", "SILVER_SCHEMA", "LOCAL_GOLD_SCHEMA",
                  "SUPABASE_SCHEMA", "GOLD_TABLES", "create_gold_schema_local",
                  "build_gold_layer"}]

\* The from-imports of etl.py, in order.
Imports ==
  <<[module |-> "load_bronze",
     names |-> {"create_schema_and_tables", "load_csv_to_table", "SCHEMA"}],
    [module |-> "load_silver",
     names |-> {"create_silver_schemas_and_tables", "build_silver_layer",
                "SILVER_TABLES", "SILVER_SCHEMA"}],
    [module |-> "load_gold",
     names |-> {"create_gold_schema_and_tables", "build_gold_layer", "GOLD_TABLES"}]>>

\* "from m import a, b" succeeds when m defines every name.
ImportsResolve ==
  \A k \in DOMAIN Imports : Imports[k].names \subseteq Exports[Imports[k].module]

\* One of the two scripts is started: etl.py, which first runs its imports,
\* or load_silver.py.
InitScripts ==
  \/ /\ bronze \in {EmptyTables, StaleBronze}
     /\ SilverInit
     /\ etl = "import"
     /\ loadAt = 0
  \/ Init

\* The import statements of etl.py: run_etl is reached when they all succeed;
\* an ImportError ends the script before run_etl is called.
ImportEtl ==
  /\ etl = "import"
  /\ etl' = IF ImportsResolve THEN "bronze_ddl" ELSE "raised"
  /\ UNCHANGED <<store, pc, df, txSilver, txAudit, runs, driver>>

\* The steps of the scripts.  The steps of run_etl are those of NextEtl; no
\* behaviour of etl.py as a script reaches them.
NextScripts ==
  \/ ImportEtl
  \/ SilverNext

\* A started script goes on as long as it has a step to take.
SpecScripts == InitScripts /\ [][NextScripts]_vars /\ WF_vars(NextScripts)

\* C16: a started run of etl.py in the end completes, having performed the
\* bronze, the silver and the gold stage in this order, or has had a stage
\* fail.
C16_StartedRunCompletes ==
  (etl = "import") ~>
    \/ \E k \in DOMAIN trace : trace[k] = "failed"
    \/ /\ etl = "done"
       /\ \E b \in DOMAIN trace : \E s \in DOMAIN trace : \E g \in DOMAIN trace :
            /\ b < s
            /\ s < g
            /\ trace[b] = "bronze_ddl"
            /\ trace[s] = "silver_build"
            /\ trace[g] = "gold_tables"

\* The audit records with a drop reason that a run wrote for row i of raw
\* table t.
DropRecordsFor(R, t, i) ==
  {k \in RecordsFor(R, t, i) : R.added[k].reason \notin LogReasons}

\* C17: after a call that returned, every raw row is in exactly one class:
\* it was loaded into silver, in normalized form; or the call wrote exactly
\* one audit record with a drop reason for it; or it repeats the primary key
\* of an earlier row and was removed as a duplicate.
C17_Conservation ==
  \A n \in OkRuns : \A t \in Tables : \A i \in DOMAIN runs[n].input[t] :
    LET R == runs[n]
        r == R.input[t][i]
        loaded == (i - 1) \in R.kept[t]
        audited == DropRecordsFor(R, t, i)
        duplicate == RepeatsKey(t, R.input[t], i)
    IN  /\ Cardinality(audited) <= 1
        /\ loaded =>
             /\ audited = {}
             /\ ~duplicate
             /\ \E k \in DOMAIN R.silver[t] : R.silver[t][k] = Normalized(t, r)
        /\ ~loaded =>
             \/ audited # {} /\ ~duplicate
             \/ audited = {} /\ duplicate

\* C18: a step changes the rows of a bronze table only when it is
\* load_all_bronze's load of that table's file and the load succeeds; a table
\* whose file is missing or whose load fails, and every table other than the
\* one being loaded, keeps its rows.
C18_BronzeLoadFrame ==
  [][\A u \in Tables :
       bronze'[u] # bronze[u] =>
         /\ etl = "bronze_load"
         /\ loadAt \in DOMAIN TableNames
         /\ u = TableNames[loadAt]
         /\ trace' = Append(trace, "bronze_load")]_vars

====
